---- MODULE Spec2Model ----
(***************************************************************************)
(* A model of the Mongo-ODM collection facade (src/src/Model.ts) over the  *)
(* direct query facade (src/src/QueryBuilder.ts) and the MongoDB driver.   *)
(*                                                                         *)
(* JavaScript values are records [k |-> kind, v |-> payload].  The payload *)
(* of a number is its decimal literal (a string), so that NaN and 1.5 are  *)
(* values like any other; the payload of a date is its time value; the     *)
(* payload of an array is the sequence of its elements.                    *)
(***************************************************************************)
EXTENDS Integers, Sequences, FiniteSets, TLC

VARIABLES
  fieldOptions,      \* Model.$fieldOptions: the sequence of field descriptors
  otherOptionsIn,    \* the otherOptions argument handed to the constructor
  otherOptions,      \* Model.$otherOptions: [debug, log]
  built,             \* outcome of `new Model(...)`: "pending", "ok" or the error thrown
  input,             \* arguments of a direct run of processDocument
  processed,         \* its outcome
  clock,             \* new Date().getTime(), in milliseconds
  uniqueIndex,       \* fields of the bound collection that carry a unique index
  store,             \* the bound collection: documents in insertion order
  debugStore,        \* the _mongoOrmDebug collection: TelemetryRecords written
  telemetryPending,  \* telemetry inserts handed to the driver and not yet settled
  call,              \* per caller: the Model operation in flight and its outcome
  unhandled,         \* rejected promises that nothing awaits or catches
  mongoConnection,   \* Connection.$mongoConnection: "unset" or the Db handle
  connect,           \* the promise of the latest Connection.create
  indexOptions,      \* Model.$indexOptions: the sequence of index descriptors
  indexing,          \* generateIndexes: its promise and the createIndex calls it issued
  sanitized          \* argument and outcome of a run of Connection.sanitize

bootVars == <<mongoConnection, connect, indexOptions, indexing, sanitized>>

vars == <<fieldOptions, otherOptionsIn, otherOptions, built, input, processed,
          clock, uniqueIndex, store, debugStore, telemetryPending, call, unhandled,
          bootVars>>

-----------------------------------------------------------------------------
(* JavaScript values                                                        *)

Undefined == [k |-> "undefined", v |-> "undefined"]
Null == [k |-> "null", v |-> "null"]
Str(s) == [k |-> "string", v |-> s]
Num(t) == [k |-> "number", v |-> t]
Bool(b) == [k |-> "boolean", v |-> IF b THEN "true" ELSE "false"]
DateOf(t) == [k |-> "date", v |-> t]
Arr(s) == [k |-> "array", v |-> s]
Obj(t) == [k |-> "object", v |-> t]
Wrapper(p) == [k |-> "wrapper", v |-> p]
Hole == [k |-> "empty", v |-> "empty"]

\* typeof x
TypeOf(x) ==
  CASE x.k = "undefined" -> "undefined"
    [] x.k \in {"string", "number", "boolean"} -> x.k
    [] OTHER -> "object"

\* x instanceof Date, Array.isArray(x)
IsDate(x) == x.k = "date"
IsArray(x) == x.k = "array"

\* the truthiness test of `if (document[field.name])`
\* a presence test in place of the truthiness test
TruthyPresent(x) == x.k \notin {"undefined", "null"}

Truthy(x) ==
  /\ x.k \notin {"undefined", "null"}
  /\ ~(x.k = "string" /\ x.v = "")
  /\ ~(x.k = "number" /\ x.v \in {"0", "NaN"})
  /\ ~(x.k = "boolean" /\ x.v = "false")

\* the decimal literals a string can hold in this model
NumLits == {"0", "1", "2", "99", "-1", "1.5"}

StringToNumber(s) == IF s = "" THEN "0" ELSE IF s \in NumLits THEN s ELSE "NaN"

RECURSIVE JsString(_)
RECURSIVE Join(_)
\* Array.prototype.join(",") as used by String(array)
Join(s) ==
  IF s = <<>> THEN ""
  ELSE LET head == IF s[1].k \in {"undefined", "null", "empty"} THEN "" ELSE JsString(s[1])
       IN  IF Len(s) = 1 THEN head ELSE head \o "," \o Join(Tail(s))

\* String(x)
JsString(x) ==
  CASE x.k \in {"undefined", "null", "string", "number", "boolean"} -> x.v
    [] x.k = "date" -> IF x.v = "NaN" THEN "Invalid Date" ELSE "Date(" \o x.v \o ")"
    [] x.k = "array" -> Join(x.v)
    [] x.k = "wrapper" -> JsString(x.v)
    [] x.k = "empty" -> ""
    [] OTHER -> "[object Object]"

RECURSIVE JsNumber(_)
\* Number(x), as a literal
JsNumber(x) ==
  CASE x.k = "undefined" -> "NaN"
    [] x.k = "null" -> "0"
    [] x.k = "boolean" -> IF x.v = "true" THEN "1" ELSE "0"
    [] x.k \in {"number", "date"} -> x.v
    [] x.k = "string" -> StringToNumber(x.v)
    [] x.k = "array" -> StringToNumber(Join(x.v))
    [] x.k = "wrapper" -> JsNumber(x.v)
    [] OTHER -> "NaN"

\* Boolean(x)
JsBoolean(x) == Bool(Truthy(x))

\* Date.parse(s): the one ISO string of the model is the epoch, any other text is no date
ParseDate(s) == IF s = "1970-01-01T00:00:00.000Z" THEN "0" ELSE "NaN"

\* TimeClip of a number literal: the fraction is dropped
TimeClip(t) == IF t = "1.5" THEN "1" ELSE t

RECURSIVE JsDateTime(_)
\* the time value of new Date(x)
JsDateTime(x) ==
  CASE x.k = "date" -> x.v
    [] x.k = "undefined" -> "NaN"
    [] x.k = "null" -> "0"
    [] x.k = "boolean" -> IF x.v = "true" THEN "1" ELSE "0"
    [] x.k = "number" -> TimeClip(x.v)
    [] x.k = "string" -> ParseDate(x.v)
    [] x.k = "wrapper" -> JsDateTime(x.v)
    [] OTHER -> ParseDate(JsString(x))

JsDate(x) == DateOf(JsDateTime(x))

\* Array(x) with one argument: a number is a length, anything else an element
IsArrayLength(t) == t \in {"0", "1", "2", "99"}
ArrayLength(t) == CASE t = "0" -> 0 [] t = "1" -> 1 [] t = "2" -> 2 [] OTHER -> 99
ArrayThrows(x) == x.k = "number" /\ ~IsArrayLength(x.v)
JsArray(x) ==
  IF x.k = "number" THEN Arr([i \in 1..ArrayLength(x.v) |-> Hole]) ELSE Arr(<<x>>)

\* Object(x)
JsObject(x) ==
  CASE x.k \in {"undefined", "null"} -> Obj("{}")
    [] x.k \in {"string", "number", "boolean"} -> Wrapper(x)
    [] OTHER -> x

-----------------------------------------------------------------------------
(* Documents: functions from keys to values                                 *)

EmptyDoc == [key \in {} |-> Undefined]
Get(d, key) == IF key \in DOMAIN d THEN d[key] ELSE Undefined
Put(d, key, val) == [x \in DOMAIN d \cup {key} |-> IF x = key THEN val ELSE d[x]]

-----------------------------------------------------------------------------
(* FieldTypes and the schema validator                                      *)

FieldTypes == {"string", "number", "boolean", "date", "array", "object", "objectId", "mixed"}

NoError == [kind |-> "none", field |-> ""]
DefaultTypeError(field) == [kind |-> "DefaultTypeError", field |-> field.type]
ReservedNameError == [kind |-> "ReservedNameError", field |-> "createdAt|updatedAt"]
RequiredFieldError(name) == [kind |-> "RequiredFieldError", field |-> name]
RangeError == [kind |-> "RangeError", field |-> "Invalid array length"]

\* a default check that lets null pass for Boolean as it does for String and Number
processDefaultThrowsNullBoolean(field) ==
  LET d == field.default IN
  /\ TypeOf(d) # "undefined"
  /\ CASE field.type = "string" -> TypeOf(d) # "string" /\ d # Null
       [] field.type = "number" -> TypeOf(d) # "number" /\ d # Null
       [] field.type = "boolean" -> TypeOf(d) # "boolean" /\ d # Null
       [] field.type = "date" -> ~IsDate(d)
       [] field.type = "array" -> ~IsArray(d)
       [] field.type = "object" -> TypeOf(d) # "object" /\ d # Null
       [] field.type = "objectId" -> TypeOf(d) # "string" /\ d # Null
       [] OTHER -> FALSE

\* processDefault(field) throws
processDefaultThrows(field) ==
  LET d == field.default IN
  /\ TypeOf(d) # "undefined"
  /\ CASE field.type = "string" -> TypeOf(d) # "string" /\ d # Null
       [] field.type = "number" -> TypeOf(d) # "number" /\ d # Null
       [] field.type = "boolean" -> TypeOf(d) # "boolean"
       [] field.type = "date" -> ~IsDate(d)
       [] field.type = "array" -> ~IsArray(d)
       [] field.type = "object" -> TypeOf(d) # "object" /\ d # Null
       [] field.type = "objectId" -> TypeOf(d) # "string" /\ d # Null
       [] OTHER -> FALSE

ReservedNames == {"createdAt", "updatedAt"}

\* the error `new Model(name, fields, ...)` throws, NoError when it returns
\* a constructor whose reserved-name check knows createdAt only
constructorErrorCreatedAtOnly(fields) ==
  LET bad == {i \in 1..Len(fields) : processDefaultThrows(fields[i])}
      first == CHOOSE i \in bad : \A j \in bad : i <= j
  IN  IF bad # {} THEN DefaultTypeError(fields[first])
      ELSE IF \E i \in 1..Len(fields) : fields[i].name = "createdAt" THEN ReservedNameError
      ELSE NoError

constructorError(fields) ==
  LET bad == {i \in 1..Len(fields) : processDefaultThrows(fields[i])}
      first == CHOOSE i \in bad : \A j \in bad : i <= j
      checkBadFields == {i \in 1..Len(fields) : fields[i].name \in ReservedNames}
  IN  IF bad # {} THEN DefaultTypeError(fields[first])
      ELSE IF checkBadFields # {} THEN ReservedNameError
      ELSE NoError

\* $otherOptions as the constructor computes it: `debug || false`, `log || -1`
constructorOptions(opts) ==
  [debug |-> opts.debug,
   log |-> IF opts.log = <<>> \/ opts.log[1] = 0 THEN -1 ELSE opts.log[1]]

-----------------------------------------------------------------------------
(* The document processor                                                   *)

Throws(type, x) == type = "array" /\ ~IsArray(x) /\ ArrayThrows(x)

Coerce(type, x) ==
  CASE type = "date" -> JsDate(x)
    [] type = "number" -> Num(JsNumber(x))
    [] type = "boolean" -> JsBoolean(x)
    [] type = "objectId" -> Str(JsString(x))
    [] type = "array" /\ ~IsArray(x) -> JsArray(x)
    [] type = "object" -> JsObject(x)
    [] OTHER -> x

Ok(d) == [ok |-> TRUE, doc |-> d, err |-> NoError]
Fail(e) == [ok |-> FALSE, doc |-> EmptyDoc, err |-> e]

\* Math.ceil(now / 1000) as a number
Stamp(now) == Num(ToString((now + 999) \div 1000))

RECURSIVE processFields(_, _, _, _, _)
\* the for loop of processDocument from index i on, processedDocument being acc
processFields(fields, document, isUpdate, i, acc) ==
  IF i > Len(fields) THEN Ok(acc)
  ELSE
    LET field == fields[i]
        value == Get(document, field.name)
    IN  IF Truthy(value)
        THEN IF Throws(field.type, value) THEN Fail(RangeError)
             ELSE processFields(fields, document, isUpdate, i + 1,
                                Put(acc, field.name, Coerce(field.type, value)))
        ELSE IF TypeOf(field.default) # "undefined"
        THEN IF Throws(field.type, field.default) THEN Fail(RangeError)
             ELSE processFields(fields, document, isUpdate, i + 1,
                                Put(acc, field.name, Coerce(field.type, field.default)))
        ELSE IF ~isUpdate /\ field.required
        THEN Fail(RequiredFieldError(field.name))
        ELSE processFields(fields, document, isUpdate, i + 1, acc)

\* a processor that starts from a copy of the input instead of an empty document
processDocumentSpread(fields, document, isUpdate, now) ==
  LET r == processFields(fields, document, isUpdate, 1, document)
  IN  IF r.ok
      THEN Ok(Put(r.doc, IF isUpdate THEN "updatedAt" ELSE "createdAt", Stamp(now)))
      ELSE r

\* a processor that stamps createdAt on every call, and updatedAt on an update as well
processDocumentStampsBoth(fields, document, isUpdate, now) ==
  LET r == processFields(fields, document, isUpdate, 1, EmptyDoc)
      stamped == Put(r.doc, "createdAt", Stamp(now))
  IN  IF r.ok THEN Ok(IF isUpdate THEN Put(stamped, "updatedAt", Stamp(now)) ELSE stamped)
      ELSE r

processDocument(fields, document, isUpdate, now) ==
  LET r == processFields(fields, document, isUpdate, 1, EmptyDoc)
  IN  IF r.ok
      THEN Ok(Put(r.doc, IF isUpdate THEN "updatedAt" ELSE "createdAt", Stamp(now)))
      ELSE r

-----------------------------------------------------------------------------
(* The driver, the query builder and the dispatch wrapper                   *)

CollectionName == "users"
DuplicateKeyError == [kind |-> "MongoServerError", field |-> "E11000 duplicate key"]

\* an equality filter: every key of the query is held with that value
Matches(doc, query) == \A key \in DOMAIN query : Get(doc, key) = query[key]

\* collection.findOne(query): the first stored document that matches, or null
driverFindOne(coll, query) ==
  LET hits == {i \in 1..Len(coll) : Matches(coll[i], query)}
  IN  IF hits = {} THEN [found |-> FALSE, doc |-> EmptyDoc]
      ELSE [found |-> TRUE, doc |-> coll[CHOOSE i \in hits : \A j \in hits : i <= j]]

\* the key a unique index holds for a document: a missing field indexes as null
IndexKey(doc, f) == IF f \in DOMAIN doc THEN doc[f] ELSE Null

\* collection.insertOne(doc) is refused: a unique index already holds doc's key
driverRejects(coll, doc, index) ==
  \E f \in index : \E i \in 1..Len(coll) : IndexKey(coll[i], f) = IndexKey(doc, f)

\* collection.insertOne(doc) on success: the document is stored under a fresh _id
ObjectId(n) == [k |-> "objectId", v |-> ToString(n)]

\* the driver generates an _id that no stored document carries
IdNumbers == 0..8
IdOf(doc) == CHOOSE n \in IdNumbers : ObjectId(n) = doc["_id"]
NextId(coll) ==
  LET used == {0} \cup {IdOf(coll[i]) : i \in 1..Len(coll)}
  IN  1 + CHOOSE n \in used : \A m \in used : m <= n
\* a driver whose insert replaces a stored document with the same email
driverInsertOneReplacing(coll, doc) ==
  LET same == {i \in 1..Len(coll) : Get(coll[i], "email") = Get(doc, "email")}
  IN  IF same = {} THEN Append(coll, Put(doc, "_id", ObjectId(NextId(coll))))
      ELSE [i \in 1..Len(coll) |->
              IF i \in same THEN Put(doc, "_id", coll[i]["_id"]) ELSE coll[i]]

driverInsertOne(coll, doc) == Append(coll, Put(doc, "_id", ObjectId(NextId(coll))))

\* what QueryBuilder.insertOne resolves to: { _id: result?.insertedId, ...document }
qbInsertOne(insertedId, document) ==
  [key \in DOMAIN document \cup {"_id"} |->
     IF key \in DOMAIN document THEN document[key] ELSE insertedId]

NoValue == [kind |-> "none", bool |-> FALSE, doc |-> EmptyDoc]
NullValue == [kind |-> "null", bool |-> FALSE, doc |-> EmptyDoc]
BoolValue(b) == [kind |-> "boolean", bool |-> b, doc |-> EmptyDoc]
DocValue(d) == [kind |-> "document", bool |-> FALSE, doc |-> d]

\* what Model.insertOne resolves to, given QueryBuilder.insertOne's result
insertOneResult(result) == BoolValue(Truthy(Get(result, "acknowledged")))

\* a findOneOrCreate that ignores what its read found
returnsFoundNever(found) == FALSE

\* `if (findOne) return findOne;` of Model.findOneOrCreate
returnsFound(found) == found.found

\* a threshold test that does not look at debug
telemetryDueAlways(opts, total) == opts.log # -1 /\ total > opts.log

\* a threshold test that writes at the threshold already
telemetryDueAtThreshold(opts, total) == opts.debug /\ opts.log # -1 /\ total >= opts.log

\* dispatchAction's test for writing a TelemetryRecord after fn() has resolved
telemetryDue(opts, total) == opts.debug /\ opts.log # -1 /\ total > opts.log

\* JSON.stringify(query, null, 2): a string, holding the JSON text of the filter
JsonStringify(query) == [k |-> "string", json |-> query]

\* the document dispatchAction hands to queryBuilder.insertOne('_mongoOrmDebug', ...)
TelemetryRecord(query, total, now) ==
  [model |-> CollectionName, query |-> JsonStringify(query), time |-> total,
   date |-> DateOf(ToString(now))]

\* the driver's other operations on the bound collection
MatchingIndexes(coll, query) == {i \in 1..Len(coll) : Matches(coll[i], query)}
FirstMatch(coll, query) ==
  CHOOSE i \in MatchingIndexes(coll, query) : \A j \in MatchingIndexes(coll, query) : i <= j

\* { $set: update } applied to one document
SetFields(doc, update) ==
  [key \in DOMAIN doc \cup DOMAIN update |->
     IF key \in DOMAIN update THEN update[key] ELSE doc[key]]

\* the update operators of the model; the driver refuses any other key of an update
\* document before it sends anything
UpdateOperators == {"$set", "$unset", "$setOnInsert"}
AtomicOperatorError ==
  [kind |-> "MongoInvalidArgumentError", field |-> "Update document requires atomic operators"]

\* { [useModifier]: update } applied to a stored document that matched the filter
applyModifier(doc, modifier, update) ==
  CASE modifier = "$set" -> SetFields(doc, update)
    [] modifier = "$unset" -> [key \in DOMAIN doc \ DOMAIN update |-> doc[key]]
    [] OTHER -> doc

\* an upsert that stamps the document it creates
upsertedStamped(coll, query, modifier, update) ==
  Put(Put(SetFields(query, update), "createdAt", Num("1")), "_id", ObjectId(NextId(coll)))

\* the document an upsert inserts when nothing matched: the equality fields of the
\* filter, the operator applied to them, and a fresh _id
upserted(coll, query, modifier, update) ==
  Put(IF modifier \in {"$set", "$setOnInsert"} THEN SetFields(query, update) ELSE query,
      "_id", ObjectId(NextId(coll)))

driverUpdateOne(coll, query, modifier, update, upsert) ==
  IF MatchingIndexes(coll, query) = {}
  THEN IF upsert THEN Append(coll, upserted(coll, query, modifier, update)) ELSE coll
  ELSE [coll EXCEPT ![FirstMatch(coll, query)] = applyModifier(@, modifier, update)]

driverUpdateMany(coll, query, modifier, update) ==
  [i \in 1..Len(coll) |->
     IF Matches(coll[i], query) THEN applyModifier(coll[i], modifier, update) ELSE coll[i]]

WithoutIndex(coll, i) == [j \in 1..(Len(coll) - 1) |-> IF j < i THEN coll[j] ELSE coll[j + 1]]

driverDeleteOne(coll, query) ==
  IF MatchingIndexes(coll, query) = {} THEN coll
  ELSE WithoutIndex(coll, FirstMatch(coll, query))

RECURSIVE driverDeleteMany(_, _)
driverDeleteMany(coll, query) ==
  IF MatchingIndexes(coll, query) = {} THEN coll
  ELSE driverDeleteMany(WithoutIndex(coll, FirstMatch(coll, query)), query)

RECURSIVE driverInsertMany(_, _)
driverInsertMany(coll, docs) ==
  IF docs = <<>> THEN coll
  ELSE driverInsertMany(driverInsertOne(coll, Head(docs)), Tail(docs))

\* the result objects of the driver's write operations: UpdateResult, DeleteResult
\* and InsertManyResult all carry `acknowledged` (false under write concern w: 0)
WriteResult(ack) == DocValue([key \in {"acknowledged"} |-> Bool(ack)])

\* collection.findOneAndUpdate(..., { returnDocument: 'after' }) resolves to the
\* document or null, or (includeResultMetadata, the default of older drivers) to a
\* ModifyResult { value, ok, lastErrorObject }
ModifyResult(found) ==
  DocValue([key \in {"value", "ok"} |->
              IF key = "ok" THEN Num("1") ELSE IF found.found THEN Obj("document") ELSE Null])
FoundValue(found) == IF found.found THEN DocValue(found.doc) ELSE NullValue

\* result?.acknowledged on a JavaScript value: only an object can hold the property
PropertyOf(value, key) == IF value.kind = "document" THEN Get(value.doc, key) ELSE Undefined
acknowledgedOf(value) == Truthy(PropertyOf(value, "acknowledged"))

\* QueryBuilder.updateOne, updateMany, deleteMany, deleteOne, insertMany:
\* `return !!result?.acknowledged`
qbAcknowledged(result) == BoolValue(acknowledgedOf(result))

\* QueryBuilder.findOneAndUpdate:
\* `return result?.acknowledged ? await this.findOne(collection, { ...query }) : null`
qbFindOneAndUpdate(result, refetched) ==
  IF acknowledgedOf(result) THEN FoundValue(refetched) ELSE NullValue

\* Model.updateOne, updateMany, deleteMany, deleteOne, insertMany:
\* `return !!result?.acknowledged`, result being what dispatchAction resolved to
modelAcknowledged(result) == BoolValue(acknowledgedOf(result))

-----------------------------------------------------------------------------
(* Bounds and input sets                                                    *)

MaxFields == 2

\* default values a field descriptor may declare
DefaultValues ==
  {Undefined, Null, Str("z"), Num("99"), Bool(FALSE), DateOf("0"), Arr(<<>>), Obj("{}")}

\* field descriptors: every type with every default, under a plain or a reserved name
Fields ==
  [name : {"a"} \cup ReservedNames, type : FieldTypes, default : DefaultValues,
   required : BOOLEAN]

\* the descriptors that fill the other positions of a schema
FewFields ==
  {[name |-> "b", type |-> "string", default |-> Undefined, required |-> TRUE],
   [name |-> "b", type |-> "array", default |-> Undefined, required |-> FALSE],
   [name |-> "a", type |-> "number", default |-> Num("99"), required |-> FALSE]}

\* schemas of 1..MaxFields descriptors, at most one of them outside FewFields
FieldLists ==
  UNION {{[s EXCEPT ![i] = f] : s \in [1..n -> FewFields], i \in 1..n, f \in Fields}
         : n \in 1..MaxFields}

\* values a raw input document may hold under key "a"
InputValues ==
  {Undefined, Null, Str(""), Str("a"), Num("0"), Num("2"), Num("1.5"), Num("NaN"),
   Bool(FALSE), Bool(TRUE), Arr(<<>>), Arr(<<Str("a")>>), Obj("{}"), DateOf("0")}

\* the raw input document with a under "a", b under "b", and, when extra, keys no
\* schema can declare
RawDocument(a, b, extra) ==
  LET d0 == IF extra
            THEN [key \in {"x", "createdAt", "updatedAt"} |->
                    IF key = "x" THEN Str("a") ELSE Num("7")]
            ELSE EmptyDoc
      d1 == IF a = Undefined THEN d0 ELSE Put(d0, "a", a)
  IN  IF b = Undefined THEN d1 ELSE Put(d1, "b", b)

Documents ==
  {RawDocument(a, b, extra) :
     a \in InputValues, b \in {Undefined, Str("a"), Num("1.5")}, extra \in BOOLEAN}

\* readings of the clock, in milliseconds
Clocks == {1, 1001}

\* the concurrent callers of the Model, one operation each
NumCallers == 2
Callers == 1..NumCallers

\* how long a driver call takes, in milliseconds, and the last clock reading
Durations == {10, 100}
MaxClock == 210

\* the descriptors of the schemas the callers work on
EmailField == [name |-> "email", type |-> "string", default |-> Undefined, required |-> TRUE]
TagsField == [name |-> "tags", type |-> "array", default |-> Undefined, required |-> FALSE]
TypeField == [name |-> "type", type |-> "string", default |-> Str("basic"), required |-> FALSE]

SysFieldLists ==
  {<<EmailField>>, <<TypeField>>, <<TagsField, EmailField>>, <<EmailField, TypeField>>}

SysOptions ==
  {[debug |-> FALSE, log |-> <<>>], [debug |-> TRUE, log |-> <<0>>],
   [debug |-> TRUE, log |-> <<50>>]}

\* raw input documents and filters of the callers
SysDocuments ==
  {EmptyDoc,
   [key \in {"email"} |-> Str("a")],
   [key \in {"email"} |-> Str("b")],
   [key \in {"tags"} |-> Num("1.5")]}

SysQueries == {[key \in {"email"} |-> Str("a")]}

\* the schemas, options and arguments of a client that runs one operation after another
EmailNumberField == [name |-> "email", type |-> "number", default |-> Undefined, required |-> FALSE]

OpsFieldLists ==
  {<<EmailField, TypeField>>, <<TagsField, EmailField>>, <<EmailField, EmailNumberField>>}

OpsOptions ==
  {[debug |-> FALSE, log |-> <<50>>], [debug |-> TRUE, log |-> <<0>>],
   [debug |-> TRUE, log |-> <<50>>], [debug |-> TRUE, log |-> <<100>>]}

OpsUpdates == {[key \in {"type"} |-> Str("pro")], [key \in {"tags"} |-> Num("1.5")]}

OpsDocLists ==
  {<<[key \in {"email"} |-> Str("a")], [key \in {"email"} |-> Str("b")]>>,
   <<[key \in {"email"} |-> Str("a")], EmptyDoc>>}

OpsDocuments == {EmptyDoc, [key \in {"email"} |-> Str("a")]}

ModelOps ==
  {"insertOne", "findOne", "findOneAndUpdate", "updateOne", "updateMany", "deleteMany",
   "deleteOne", "insertMany"}
UpdateOps == {"findOneAndUpdate", "updateOne", "updateMany"}
AcknowledgedOps == {"updateOne", "updateMany", "deleteMany", "deleteOne", "insertMany"}

-----------------------------------------------------------------------------
(* State                                                                    *)

Pending == [state |-> "pending", err |-> NoError]
NotRun == [ran |-> FALSE, document |-> EmptyDoc, isUpdate |-> FALSE]
NoResult == [ok |-> FALSE, doc |-> EmptyDoc, err |-> NoError]

\* what fn(), the closure handed to dispatchAction, has settled to
NotSettled == [settled |-> FALSE, value |-> NoValue, err |-> NoError]
FnResolved(value) == [settled |-> TRUE, value |-> value, err |-> NoError]
FnRejected(e) == [settled |-> TRUE, value |-> NoValue, err |-> e]

Idle ==
  [pc |-> "idle", op |-> "none", query |-> EmptyDoc, document |-> EmptyDoc,
   doc |-> EmptyDoc, start |-> 0, matched |-> FALSE, processorRuns |-> 0,
   inserts |-> 0, telemetry |-> 0, result |-> NoValue, error |-> NoError,
   driverOp |-> "none", docs |-> <<>>, fnCalls |-> 0, fn |-> NotSettled,
   dispatched |-> NoValue, upsert |-> FALSE, modifier |-> "$set", documents |-> <<>>]

\* generateIndexes not called; Connection.sanitize not called
NotIndexed == [promise |-> "none", inFlight |-> {}, created |-> {}, failed |-> {}]
NotSanitized == [ran |-> FALSE, v |-> Null, out |-> Null]

\* a process in which `await MongoODM.connect(...)` has set the shared handle
Connected == mongoConnection = "db" /\ connect = "resolved"

InitModel(lists, options, indexes) ==
  /\ indexing = NotIndexed
  /\ sanitized = NotSanitized
  /\ fieldOptions \in lists
  /\ otherOptionsIn \in options
  /\ otherOptions = [debug |-> FALSE, log |-> -1]
  /\ built = Pending
  /\ input = NotRun
  /\ processed = NoResult
  /\ clock = 0
  /\ uniqueIndex \in indexes
  /\ store = <<>>
  /\ debugStore = <<>>
  /\ telemetryPending = <<>>
  /\ call = [c \in Callers |-> Idle]
  /\ unhandled = 0

InitWith(lists, options, indexes) ==
  /\ Connected
  /\ indexOptions = <<>>
  /\ InitModel(lists, options, indexes)

\* new Model(collectionName, fieldOptions, indexOptions, otherOptions)
Construct ==
  /\ built.state = "pending"
  /\ otherOptions' = constructorOptions(otherOptionsIn)
  /\ LET e == constructorError(fieldOptions)
     IN  built' = [state |-> IF e = NoError THEN "ok" ELSE "threw", err |-> e]
  /\ UNCHANGED <<bootVars, unhandled, fieldOptions, otherOptionsIn, input, processed, clock, uniqueIndex,
                 store, debugStore, telemetryPending, call>>

\* this.processDocument(document, isUpdate) on a constructed Model
Process ==
  /\ built.state = "ok"
  /\ ~input.ran
  /\ \E document \in Documents, isUpdate \in BOOLEAN, now \in Clocks :
       /\ now >= clock
       /\ clock' = now
       /\ input' = [ran |-> TRUE, document |-> document, isUpdate |-> isUpdate]
       /\ processed' = processDocument(fieldOptions, document, isUpdate, now)
  /\ UNCHANGED <<bootVars, unhandled, fieldOptions, otherOptionsIn, otherOptions, built, uniqueIndex,
                 store, debugStore, telemetryPending, call>>

InitProc == InitWith(FieldLists, {[debug |-> FALSE, log |-> <<>>]}, {{}})
NextProc == Construct \/ Process
SpecProc == InitProc /\ [][NextProc]_vars

-----------------------------------------------------------------------------
(* Model operations, one action per stretch of code between two awaits      *)

\* an operation that catches the error and resolves to false
RejectedSwallowed(rec, e) == [rec EXCEPT !.pc = "done", !.result = BoolValue(FALSE), !.start = 0]

\* the operation's promise settles; `start`, a local of dispatchAction, is gone
Rejected(rec, e) == [rec EXCEPT !.pc = "done", !.error = e, !.start = 0]
Resolved(rec, value) == [rec EXCEPT !.pc = "done", !.result = value, !.start = 0]

\* callers are numbered in the order in which they invoke the Model
MayCall(c) == call[c].pc = "idle" /\ \A b \in Callers : b < c => call[b].pc # "idle"

\* Model.insertOne(document) up to its await of the driver: dispatchAction reads the
\* clock, fn() runs processDocument and hands the processed document to the driver
insertOneStart(rec, document, now) ==
  LET p == processDocument(fieldOptions, document, FALSE, now)
      ran == [rec EXCEPT !.processorRuns = @ + 1]
  IN  IF ~p.ok THEN Rejected(ran, p.err)
      ELSE [ran EXCEPT !.pc = "insertOne", !.doc = p.doc, !.start = now,
                       !.inserts = @ + 1]

\* Model.findOneOrCreate after its read: return the match, else
\* `this.insertOne(this.processDocument(document))`
findOneOrCreateAfterRead(rec, found, now) ==
  IF returnsFound(found)
  THEN Resolved([rec EXCEPT !.matched = TRUE], DocValue(found.doc))
  ELSE LET outer == processDocument(fieldOptions, rec.document, FALSE, now)
           ran == [rec EXCEPT !.processorRuns = @ + 1]
       IN  IF ~outer.ok THEN Rejected(ran, outer.err)
           ELSE insertOneStart(ran, outer.doc, now)

\* the tail of dispatchAction once fn() has resolved: the telemetry writes it starts
dispatchTelemetry(rec, query, now) ==
  IF telemetryDue(otherOptions, now - rec.start)
  THEN <<TelemetryRecord(query, now - rec.start, now)>>
  ELSE <<>>

\* a caller invokes Model.insertOne(document)
InsertOneCall(c) ==
  /\ built.state = "ok"
  /\ MayCall(c)
  /\ \E document \in SysDocuments :
       call' = [call EXCEPT ![c] =
                  insertOneStart([@ EXCEPT !.op = "insertOne", !.document = document],
                                 document, clock)]
  /\ UNCHANGED <<bootVars, unhandled, fieldOptions, otherOptionsIn, otherOptions, built, input, processed,
                 clock, uniqueIndex, store, debugStore, telemetryPending>>

\* the driver answers the insertOne a caller awaits; Model.insertOne resolves or rejects
DriverInsertOne(c) ==
  /\ call[c].pc = "insertOne"
  /\ \E d \in Durations :
       /\ clock + d <= MaxClock
       /\ clock' = clock + d
       /\ IF driverRejects(store, call[c].doc, uniqueIndex)
          THEN /\ call' = [call EXCEPT ![c] = Rejected(@, DuplicateKeyError)]
               /\ UNCHANGED <<store, telemetryPending>>
          ELSE LET stored == driverInsertOne(store, call[c].doc)
                   result == qbInsertOne(stored[Len(stored)]["_id"], call[c].doc)
                   writes == dispatchTelemetry(call[c], EmptyDoc, clock + d)
               IN  /\ store' = stored
                   /\ telemetryPending' = telemetryPending \o writes
                   /\ call' = [call EXCEPT ![c] =
                                 Resolved([@ EXCEPT !.telemetry = @ + Len(writes)],
                                          insertOneResult(result))]
  /\ UNCHANGED <<bootVars, unhandled, fieldOptions, otherOptionsIn, otherOptions, built, input, processed,
                 uniqueIndex, debugStore>>

\* a caller invokes Model.findOneOrCreate(query, document): the read is dispatched
FindOneOrCreateCall(c) ==
  /\ built.state = "ok"
  /\ MayCall(c)
  /\ \E query \in SysQueries, document \in SysDocuments :
       call' = [call EXCEPT ![c] =
                  [@ EXCEPT !.op = "findOneOrCreate", !.query = query,
                            !.document = document, !.pc = "findOne", !.start = clock]]
  /\ UNCHANGED <<bootVars, unhandled, fieldOptions, otherOptionsIn, otherOptions, built, input, processed,
                 clock, uniqueIndex, store, debugStore, telemetryPending>>

\* the driver answers the findOne of findOneOrCreate, which runs on to its return
\* or to the await of its insert
DriverFindOne(c) ==
  /\ call[c].pc = "findOne"
  /\ \E d \in Durations :
       /\ clock + d <= MaxClock
       /\ clock' = clock + d
       /\ LET found == driverFindOne(store, call[c].query)
              writes == dispatchTelemetry(call[c], call[c].query, clock + d)
          IN  /\ telemetryPending' = telemetryPending \o writes
              /\ call' = [call EXCEPT ![c] =
                            findOneOrCreateAfterRead(
                              [@ EXCEPT !.telemetry = @ + Len(writes)], found, clock + d)]
  /\ UNCHANGED <<bootVars, unhandled, fieldOptions, otherOptionsIn, otherOptions, built, input, processed,
                 uniqueIndex, store, debugStore>>

\* the driver performs a telemetry insert that dispatchAction started and left
TelemetryInsert ==
  /\ telemetryPending # <<>>
  /\ debugStore' = Append(debugStore, Head(telemetryPending))
  /\ telemetryPending' = Tail(telemetryPending)
  /\ UNCHANGED <<bootVars, unhandled, fieldOptions, otherOptionsIn, otherOptions, built, input, processed,
                 clock, uniqueIndex, store, call>>

Init == InitWith(SysFieldLists, SysOptions, {{}, {"email"}})

Next ==
  \/ Construct
  \/ \E c \in Callers : InsertOneCall(c)
  \/ \E c \in Callers : DriverInsertOne(c)
  \/ \E c \in Callers : FindOneOrCreateCall(c)
  \/ \E c \in Callers : DriverFindOne(c)
  \/ TelemetryInsert

Spec == Init /\ [][Next]_vars

-----------------------------------------------------------------------------
(* The other Model operations, run one after another through dispatchAction  *)

DriverError == [kind |-> "MongoNetworkError", field |-> "connection closed"]
DollarPrefixError == [kind |-> "MongoServerError", field |-> "$set is not valid for storage"]

\* a client starts its next operation once the one before has settled
MayCallNext(c) == call[c].pc = "idle" /\ \A b \in Callers : b < c => call[b].pc = "done"

\* dispatchAction reads `start` (debug only) and invokes fn(), which runs up to its
\* await of the driver, or throws
\* fn() threw before it reached the driver: the closure is async, so it rejects
fnThrew(rec, e, now) ==
  [rec EXCEPT !.pc = "settled", !.fnCalls = @ + 1, !.fn = FnRejected(e),
              !.start = IF otherOptions.debug THEN now ELSE 0]

\* `Connection.$mongoConnection.collection(...)` on a handle that was never set
HandleUnsetError ==
  [kind |-> "TypeError", field |-> "Cannot read properties of undefined (reading 'collection')"]

\* the QueryBuilder method reads the shared handle and calls the driver
dispatched(rec, driverOp, now) ==
  IF mongoConnection = "unset" THEN fnThrew(rec, HandleUnsetError, now)
  ELSE [rec EXCEPT !.pc = "driver", !.driverOp = driverOp, !.fnCalls = @ + 1,
                   !.fn = NotSettled, !.start = IF otherOptions.debug THEN now ELSE 0]

\* an insertMany that leaves out the documents the processor refuses
processManySkipping(docs, now, acc) ==
  LET kept == SelectSeq(docs, LAMBDA d : processDocument(fieldOptions, d, FALSE, now).ok)
  IN  [ok |-> TRUE,
       docs |-> [i \in 1..Len(kept) |-> processDocument(fieldOptions, kept[i], FALSE, now).doc],
       err |-> NoError]

RECURSIVE processMany(_, _, _)
\* documents.map((doc) => this.processDocument(doc)): the result list, or the first throw
processMany(docs, now, acc) ==
  IF docs = <<>> THEN [ok |-> TRUE, docs |-> acc, err |-> NoError]
  ELSE LET p == processDocument(fieldOptions, Head(docs), FALSE, now)
       IN  IF p.ok THEN processMany(Tail(docs), now, Append(acc, p.doc))
           ELSE [ok |-> FALSE, docs |-> <<>>, err |-> p.err]


\* an update passes the default of processDocument's isUpdate parameter
isUpdateDefault(op) == FALSE

\* the isUpdate argument of processDocument: `true` in the update family
isUpdateOf(op) == op \in UpdateOps

\* a Model operation from its call to the first await of the driver
opStart(rec, op, query, update, docs, document, now) ==
  CASE op = "insertOne" ->
         insertOneStart([rec EXCEPT !.op = op, !.document = document], document, now)
    [] op \in {"findOne", "deleteOne", "deleteMany"} ->
         dispatched([rec EXCEPT !.op = op, !.query = query], op, now)
    [] op \in UpdateOps ->
         LET p == processDocument(fieldOptions, update, isUpdateOf(op), now)
             ran == [rec EXCEPT !.op = op, !.query = query, !.document = update,
                                !.processorRuns = @ + 1]
         IN  IF p.ok THEN dispatched([ran EXCEPT !.doc = p.doc], op, now)
             ELSE fnThrew(ran, p.err, now)
    [] op = "insertMany" ->
         LET p == processMany(docs, now, <<>>)
             ran == [rec EXCEPT !.op = op, !.documents = docs, !.processorRuns = @ + 1]
         IN  IF p.ok THEN dispatched([ran EXCEPT !.docs = p.docs], op, now)
             ELSE fnThrew(ran, p.err, now)

\* the query dispatchAction was handed for the telemetry record ({} by default)
dispatchQuery(rec) ==
  IF rec.op \in {"findOne", "findOneAndUpdate", "updateOne", "updateMany"}
  THEN rec.query ELSE EmptyDoc

\* the collection after the driver operation fn() awaits
driverApply(coll, rec) ==
  CASE rec.driverOp \in {"updateOne", "findOneAndUpdate"} ->
         driverUpdateOne(coll, rec.query, rec.modifier, rec.doc, rec.upsert)
    [] rec.driverOp = "updateMany" ->
         driverUpdateMany(coll, rec.query, rec.modifier, rec.doc)
    [] rec.driverOp = "insertOne" -> driverInsertOne(coll, rec.doc)
    [] rec.driverOp = "deleteOne" -> driverDeleteOne(coll, rec.query)
    [] rec.driverOp = "deleteMany" -> driverDeleteMany(coll, rec.query)
    [] rec.driverOp = "insertMany" -> driverInsertMany(coll, rec.docs)
    [] OTHER -> coll

\* the document findOneAndUpdate hands back with returnDocument: 'after'
updatedDocument(before, after, query) ==
  IF MatchingIndexes(before, query) = {} THEN [found |-> FALSE, doc |-> EmptyDoc]
  ELSE [found |-> TRUE, doc |-> after[FirstMatch(before, query)]]

\* what fn() resolves to: the QueryBuilder method's return value
qbResult(rec, before, after, ack, metadata) ==
  CASE rec.driverOp = "findOne" -> FoundValue(driverFindOne(before, rec.query))
    [] rec.driverOp = "findOneAndUpdate" ->
         LET found == updatedDocument(before, after, rec.query)
         IN  qbFindOneAndUpdate(IF metadata THEN ModifyResult(found) ELSE FoundValue(found),
                                driverFindOne(after, rec.query))
    [] rec.driverOp = "insertOne" ->
         DocValue(qbInsertOne(after[Len(after)]["_id"], rec.doc))
    [] OTHER -> qbAcknowledged(WriteResult(ack))

\* whether the driver operation found a stored document for its filter
driverMatched(coll, rec) ==
  rec.driverOp # "insertMany" /\ MatchingIndexes(coll, rec.query) # {}

\* the driver's update methods throw on an update document without an operator key
driverRefuses(rec) == rec.driverOp \in UpdateOps /\ rec.modifier \notin UpdateOperators

\* a wrapper that hands the result on in its else branch only
dispatchResultDebugDrops(opts, value) == IF opts.debug THEN NullValue ELSE value

\* what dispatchAction resolves to once fn() has resolved: `return result`
dispatchResult(opts, value) == value

\* Model.updateMany hands { [useModifier]: processed } to QueryBuilder.updateMany,
\* which wraps it in { [useModifier]: ... } again
nestedModifier(rec) == rec.op = "updateMany"

\* a wrapper that awaits the insert it starts
awaitsTelemetryInsert(writes) == writes # <<>>

\* whether dispatchAction awaits the telemetry insert it starts
awaitsTelemetry(writes) == FALSE

\* the Model method's own return, given what dispatchAction resolved to
modelReturn(rec, value, now) ==
  CASE rec.op \in AcknowledgedOps -> Resolved(rec, modelAcknowledged(value))
    [] rec.op = "findOneAndUpdate" /\ rec.driverOp = "findOneAndUpdate" ->
         IF acknowledgedOf(value) THEN dispatched(rec, "findOne", now)
         ELSE Resolved(rec, NullValue)
    [] OTHER -> Resolved(rec, value)


\* the values an argument ranges over: one value for an operation that does not take it
ArgumentsOf(op, ops, values) ==
  IF op \in ops THEN values ELSE {CHOOSE v \in values : TRUE}

\* a client invokes one of the operations ops of the Model
ModelCallWith(c, ops, documents, upserts, modifiers) ==
  /\ built.state = "ok"
  /\ MayCallNext(c)
  /\ \E op \in ops, query \in SysQueries :
       \E update \in ArgumentsOf(op, UpdateOps, OpsUpdates),
          docs \in ArgumentsOf(op, {"insertMany"}, OpsDocLists),
          document \in ArgumentsOf(op, {"insertOne"}, documents),
          upsert \in ArgumentsOf(op, {"updateOne", "findOneAndUpdate"}, upserts),
          modifier \in ArgumentsOf(op, UpdateOps, modifiers) :
         call' = [call EXCEPT ![c] =
                    opStart([@ EXCEPT !.upsert = upsert, !.modifier = modifier],
                            op, query, update, docs, document, clock)]
  /\ UNCHANGED <<bootVars, unhandled, fieldOptions, otherOptionsIn, otherOptions, built, input,
                 processed, clock, uniqueIndex, store, debugStore, telemetryPending>>

\* a client invokes a Model operation with the default upsert and useModifier
ModelCall(c) == ModelCallWith(c, ModelOps, OpsDocuments, {FALSE}, {"$set"})

\* the driver answers the operation fn() awaits, and the QueryBuilder method returns:
\* fn() settles.  The driver may fail; a write may go unacknowledged (w: 0); older
\* drivers answer findOneAndUpdate with result metadata; a server may store or
\* refuse the nested modifier of updateMany
DriverSettles(c) ==
  /\ call[c].pc = "driver"
  /\ \E d \in Durations, fails \in BOOLEAN,
        ack \in ArgumentsOf(call[c].driverOp, AcknowledgedOps, BOOLEAN),
        metadata \in ArgumentsOf(call[c].driverOp, {"findOneAndUpdate"}, BOOLEAN),
        strict \in ArgumentsOf(call[c].driverOp, {"updateMany"}, BOOLEAN) :
       /\ clock + d <= MaxClock
       /\ clock' = clock + d
       /\ IF fails \/ driverRefuses(call[c]) \/ (nestedModifier(call[c]) /\ strict)
          THEN /\ store' = store
               /\ call' = [call EXCEPT ![c] =
                             [@ EXCEPT !.pc = "settled",
                                       !.fn = FnRejected(IF fails THEN DriverError
                                                         ELSE IF driverRefuses(call[c])
                                                         THEN AtomicOperatorError
                                                         ELSE DollarPrefixError)]]
          ELSE LET after == IF nestedModifier(call[c])
                            THEN driverUpdateMany(store, call[c].query, call[c].modifier,
                                                  [key \in {call[c].modifier} |->
                                                     Obj("update")])
                            ELSE driverApply(store, call[c])
               IN  /\ store' = after
                   /\ call' = [call EXCEPT ![c] =
                                 [@ EXCEPT !.pc = "settled",
                                           !.matched = driverMatched(store, call[c]),
                                           !.fn = FnResolved(qbResult(call[c], store, after,
                                                                      ack, metadata))]]
  /\ UNCHANGED <<bootVars, unhandled, fieldOptions, otherOptionsIn, otherOptions, built, input,
                 processed, uniqueIndex, debugStore, telemetryPending>>

\* dispatchAction resumes after `await fn()`: a rejection propagates; otherwise it
\* measures, starts the telemetry insert without awaiting it and returns the result,
\* on which the Model method computes its own return value
DispatchReturn(c) ==
  /\ call[c].pc = "settled"
  /\ IF call[c].fn.err # NoError
     THEN /\ call' = [call EXCEPT ![c] = Rejected(@, @.fn.err)]
          /\ UNCHANGED telemetryPending
     ELSE LET writes == dispatchTelemetry(call[c], dispatchQuery(call[c]), clock)
              counted == [call[c] EXCEPT !.telemetry = @ + Len(writes),
                                         !.dispatched = dispatchResult(otherOptions,
                                                                       call[c].fn.value)]
          IN  /\ telemetryPending' = telemetryPending \o writes
              /\ call' = [call EXCEPT ![c] =
                            IF awaitsTelemetry(writes)
                            THEN [counted EXCEPT !.pc = "awaitTelemetry"]
                            ELSE modelReturn(counted, counted.dispatched, clock)]
  /\ UNCHANGED <<bootVars, unhandled, fieldOptions, otherOptionsIn, otherOptions, built, input,
                 processed, clock, uniqueIndex, store, debugStore>>

\* the driver fails a telemetry insert: the promise dispatchAction dropped rejects
TelemetryInsertFails ==
  /\ telemetryPending # <<>>
  /\ telemetryPending' = Tail(telemetryPending)
  /\ unhandled' = unhandled + 1
  /\ UNCHANGED <<bootVars, fieldOptions, otherOptionsIn, otherOptions, built, input,
                 processed, clock, uniqueIndex, store, debugStore, call>>

InitOps == InitWith(OpsFieldLists, OpsOptions, {{}})

NextOps ==
  \/ Construct
  \/ \E c \in Callers : ModelCall(c)
  \/ \E c \in Callers : DriverInsertOne(c)
  \/ \E c \in Callers : DriverSettles(c)
  \/ \E c \in Callers : DispatchReturn(c)
  \/ TelemetryInsert
  \/ TelemetryInsertFails

SpecOps == InitOps /\ [][NextOps]_vars

\* the event loop runs a continuation that is ready; nothing makes the driver answer
InitFair ==
  InitWith({<<EmailField, TypeField>>},
           {[debug |-> TRUE, log |-> <<0>>], [debug |-> TRUE, log |-> <<50>>]}, {{}})

FairSpecOps ==
  InitFair /\ [][NextOps]_vars /\ \A c \in Callers : WF_vars(DispatchReturn(c))

-----------------------------------------------------------------------------
(* Connection.create and Model.generateIndexes                              *)

modelVars ==
  <<fieldOptions, otherOptionsIn, otherOptions, built, input, processed, clock,
    uniqueIndex, store, debugStore, telemetryPending, call>>

\* index descriptors a Model is constructed with
IndexLists ==
  {<<>>, <<[name |-> "uniqueEmail", field |-> "email", unique |-> TRUE]>>,
   <<[name |-> "uniqueEmail", field |-> "email", unique |-> TRUE],
     [name |-> "", field |-> "type", unique |-> FALSE]>>}

\* MongoODM.connect(uri, modelPath): `new MongoClient(uri)` throws on a malformed
\* uri, outside the try block, so initialize and create reject; otherwise
\* initialize awaits client.connect()
ConnectionCreate ==
  /\ connect # "connecting"
  /\ \E wellFormed \in BOOLEAN :
       connect' = IF wellFormed THEN "connecting" ELSE "rejected"
  /\ UNCHANGED <<modelVars, unhandled, mongoConnection, indexOptions, indexing, sanitized>>

\* client.connect() settles.  On success the handle is set and the models folder
\* is read; on failure the catch block logs the error.  Either way initialize
\* returns and the promise of create resolves
DriverConnects ==
  /\ connect = "connecting"
  /\ \E connected \in BOOLEAN :
       mongoConnection' = IF connected THEN "db" ELSE mongoConnection
  /\ connect' = "resolved"
  /\ UNCHANGED <<modelVars, unhandled, indexOptions, indexing, sanitized>>

\* the createIndex calls generateIndexes issues: each callback of forEach runs up
\* to its await, or throws on an unset handle
issuedIndexes == IF mongoConnection = "unset" THEN {} ELSE 1..Len(indexOptions)

\* Model.generateIndexes(): forEach runs the async callback once per descriptor and
\* drops the promises; the message is logged and the promise resolves
GenerateIndexes ==
  /\ built.state = "ok"
  /\ connect = "resolved"
  /\ indexing.promise = "none"
  /\ indexing' = [indexing EXCEPT !.inFlight = issuedIndexes, !.promise = "resolved"]
  /\ unhandled' = unhandled + Len(indexOptions) - Cardinality(issuedIndexes)
  /\ UNCHANGED <<modelVars, mongoConnection, connect, indexOptions, sanitized>>

\* the driver settles one createIndex call; nothing observes the callback's promise
CreateIndexSettles ==
  /\ \E i \in indexing.inFlight, created \in BOOLEAN :
       /\ indexing' = [indexing EXCEPT
                         !.inFlight = @ \ {i},
                         !.created = IF created THEN @ \cup {i} ELSE @,
                         !.failed = IF created THEN @ ELSE @ \cup {i}]
       /\ unhandled' = IF created THEN unhandled ELSE unhandled + 1
  /\ UNCHANGED <<modelVars, mongoConnection, connect, indexOptions, sanitized>>

\* a client that awaited connect calls Model.findOne
FindOneCall(c) ==
  /\ connect = "resolved"
  /\ ModelCallWith(c, {"findOne"}, OpsDocuments, {FALSE}, {"$set"})

InitBoot ==
  /\ mongoConnection = "unset"
  /\ connect = "none"
  /\ indexOptions \in IndexLists
  /\ InitModel({<<EmailField, TypeField>>}, {[debug |-> FALSE, log |-> <<>>]}, {{}})

NextBoot ==
  \/ ConnectionCreate
  \/ DriverConnects
  \/ Construct
  \/ GenerateIndexes
  \/ CreateIndexSettles
  \/ \E c \in Callers : FindOneCall(c)
  \/ \E c \in Callers : DriverSettles(c)
  \/ \E c \in Callers : DispatchReturn(c)

SpecBoot == InitBoot /\ [][NextBoot]_vars

-----------------------------------------------------------------------------
(* The write operations of a Model, with upsert and useModifier              *)

WriteOps == {"insertOne", "insertMany", "updateOne", "updateMany", "findOneAndUpdate"}

\* useModifier arguments: three update operators and a key that is none
Modifiers == UpdateOperators \cup {"set"}

\* documents handed to insertOne: the first sets type to another value than its default
WriteDocuments ==
  {[key \in {"email", "type"} |-> IF key = "email" THEN Str("a") ELSE Str("pro")], EmptyDoc}

\* a client invokes a write operation of the Model
ModelWriteCall(c) == ModelCallWith(c, WriteOps, WriteDocuments, BOOLEAN, Modifiers)

InitWrites == InitWith({<<EmailField, TypeField>>}, {[debug |-> FALSE, log |-> <<>>]}, {{}})

NextWrites ==
  \/ Construct
  \/ \E c \in Callers : ModelWriteCall(c)
  \/ \E c \in Callers : DriverInsertOne(c)
  \/ \E c \in Callers : DriverSettles(c)
  \/ \E c \in Callers : DispatchReturn(c)
  \/ \E c \in Callers : FindOneOrCreateCall(c)
  \/ \E c \in Callers : DriverFindOne(c)

SpecWrites == InitWrites /\ [][NextWrites]_vars

-----------------------------------------------------------------------------
(* The create path of Model.findOneOrCreate on arbitrary documents          *)

\* Model.findOneOrCreate(query, document) whose read matched nothing, from the
\* return of the read on: `this.insertOne(this.processDocument(document))`.  The
\* outer run of the processor is recorded in input and processed; the document
\* that reaches the driver comes from the run inside insertOne
CreatePath(c) ==
  /\ built.state = "ok"
  /\ MayCall(c)
  /\ ~input.ran
  /\ \E document \in Documents, now \in Clocks :
       /\ now >= clock
       /\ clock' = now
       /\ input' = [ran |-> TRUE, document |-> document, isUpdate |-> FALSE]
       /\ processed' = processDocument(fieldOptions, document, FALSE, now)
       /\ call' = [call EXCEPT ![c] =
                     findOneOrCreateAfterRead(
                       [@ EXCEPT !.op = "findOneOrCreate", !.document = document],
                       [found |-> FALSE, doc |-> EmptyDoc], now)]
  /\ UNCHANGED <<bootVars, unhandled, fieldOptions, otherOptionsIn, otherOptions, built,
                 uniqueIndex, store, debugStore, telemetryPending>>

NextCreate == Construct \/ \E c \in Callers : CreatePath(c)

SpecCreate == InitProc /\ [][NextCreate]_vars

-----------------------------------------------------------------------------
(* Connection.sanitize                                                      *)

\* an object with own enumerable properties props: an object literal inherits
\* from Object.prototype, a dictionary made by Object.create(null) (the result of
\* querystring.parse, for one) from nothing
PlainObject(props) == [k |-> "object", v |-> props, proto |-> "Object.prototype"]
NullPrototypeObject(props) == [k |-> "object", v |-> props, proto |-> "null"]
HasProperties(x) == x.k = "object" /\ "proto" \in DOMAIN x

\* /^\$/.test(key), over the keys of the model
DollarKeys == {"$where", "$or"}
OtherKeys == {"a", "a$b"}

\* v instanceof Object: Object.prototype is on the prototype chain of v
InstanceOfObject(x) == HasProperties(x) /\ x.proto = "Object.prototype"

RECURSIVE sanitize(_)
\* Connection.sanitize(v): the value v is left with ($-keys deleted in place)
sanitize(v) ==
  IF InstanceOfObject(v)
  THEN [v EXCEPT !.v = [key \in DOMAIN v.v \ DollarKeys |-> sanitize(v.v[key])]]
  ELSE v

\* arguments of sanitize: objects of depth one and two over strings and numbers
Leaves == {Str("x"), Num("1")}
ObjectsOver(keys, values) ==
  UNION {{PlainObject(props), NullPrototypeObject(props)} :
           props \in UNION {[chosen -> values] : chosen \in SUBSET keys}}
Flat == ObjectsOver({"$where", "a$b"}, Leaves)
SanitizeArguments == Leaves \cup Flat \cup ObjectsOver({"$or", "a"}, Leaves \cup Flat)

\* a caller runs Connection.sanitize(v)
Sanitize ==
  /\ ~sanitized.ran
  /\ \E v \in SanitizeArguments : sanitized' = [ran |-> TRUE, v |-> v, out |-> sanitize(v)]
  /\ UNCHANGED <<modelVars, unhandled, mongoConnection, connect, indexOptions, indexing>>

InitSanitize == InitWith({<<EmailField>>}, {[debug |-> FALSE, log |-> <<>>]}, {{}})

SpecSanitize == InitSanitize /\ [][Sanitize]_vars

-----------------------------------------------------------------------------
(* The QueryBuilder called directly, with an explicit collection name        *)

QbWrites ==
  {"insertOne", "insertMany", "updateOne", "updateMany", "findOneAndUpdate",
   "findOneOrCreate"}
QbModifiers == {"$set", "$unset"}

\* documents a caller hands to the QueryBuilder: the last holds a falsy value under
\* a name no schema declares
QbDocuments ==
  {EmptyDoc, [key \in {"email"} |-> Str("a")],
   [key \in {"email", "nick"} |-> IF key = "email" THEN Str("a") ELSE Str("")]}

\* a QueryBuilder that runs the document processor of a Model on what it is handed
qbDocumentProcessed(fields, document, isUpdate, now) ==
  processDocument(fields, document, isUpdate, now)

\* the document a QueryBuilder write hands to the driver: the caller's own
qbDocument(fields, document, isUpdate, now) == Ok(document)

RECURSIVE qbDocuments(_, _, _)
\* documents.map((doc) => doc)
qbDocuments(docs, now, acc) ==
  IF docs = <<>> THEN [ok |-> TRUE, docs |-> acc, err |-> NoError]
  ELSE LET p == qbDocument(fieldOptions, Head(docs), FALSE, now)
       IN  IF p.ok THEN qbDocuments(Tail(docs), now, Append(acc, p.doc))
           ELSE [ok |-> FALSE, docs |-> <<>>, err |-> p.err]

\* a QueryBuilder method runs up to its await of the driver
qbAwait(rec, driverOp, p) ==
  IF p.ok THEN [rec EXCEPT !.pc = "qbDriver", !.driverOp = driverOp, !.doc = p.doc]
  ELSE Rejected(rec, p.err)

\* a QueryBuilder write from its call to its first await
qbStart(rec, op, document, docs, now) ==
  CASE op = "findOneOrCreate" ->
         [rec EXCEPT !.op = op, !.document = document, !.pc = "qbDriver",
                     !.driverOp = "findOne"]
    [] op = "insertMany" ->
         LET p == qbDocuments(docs, now, <<>>)
             ran == [rec EXCEPT !.op = op, !.documents = docs]
         IN  IF p.ok THEN [ran EXCEPT !.pc = "qbDriver", !.driverOp = op, !.docs = p.docs]
             ELSE Rejected(ran, p.err)
    [] OTHER ->
         qbAwait([rec EXCEPT !.op = op, !.document = document], op,
                 qbDocument(fieldOptions, document, op \in UpdateOps, now))

\* the QueryBuilder method resumes with the driver's answer
qbResume(rec, before, after, ack, metadata, now) ==
  IF rec.op = "findOneOrCreate" /\ rec.driverOp = "findOne"
  THEN LET found == driverFindOne(before, rec.query)
       IN  IF found.found THEN Resolved([rec EXCEPT !.matched = TRUE], DocValue(found.doc))
           ELSE qbAwait(rec, "insertOne", qbDocument(fieldOptions, rec.document, FALSE, now))
  ELSE Resolved(rec, qbResult(rec, before, after, ack, metadata))

\* a client calls a write method of a QueryBuilder
QueryBuilderCall(c) ==
  /\ MayCallNext(c)
  /\ \E op \in QbWrites, query \in SysQueries :
       \E document \in ArgumentsOf(op, QbWrites \ {"insertMany"}, QbDocuments),
          docs \in ArgumentsOf(op, {"insertMany"}, OpsDocLists),
          upsert \in ArgumentsOf(op, {"updateOne", "findOneAndUpdate"}, BOOLEAN),
          modifier \in ArgumentsOf(op, UpdateOps, QbModifiers) :
         call' = [call EXCEPT ![c] =
                    qbStart([@ EXCEPT !.query = query, !.upsert = upsert,
                                      !.modifier = modifier],
                            op, document, docs, clock)]
  /\ UNCHANGED <<bootVars, unhandled, fieldOptions, otherOptionsIn, otherOptions, built, input,
                 processed, clock, uniqueIndex, store, debugStore, telemetryPending>>

\* the driver answers the call a QueryBuilder method awaits
QueryBuilderSettles(c) ==
  /\ call[c].pc = "qbDriver"
  /\ \E fails \in BOOLEAN,
        ack \in ArgumentsOf(call[c].driverOp, AcknowledgedOps, BOOLEAN),
        metadata \in ArgumentsOf(call[c].driverOp, {"findOneAndUpdate"}, BOOLEAN) :
       IF fails
       THEN /\ store' = store
            /\ call' = [call EXCEPT ![c] = Rejected(@, DriverError)]
       ELSE LET after == driverApply(store, call[c])
            IN  /\ store' = after
                /\ call' = [call EXCEPT ![c] =
                              qbResume(@, store, after, ack, metadata, clock)]
  /\ UNCHANGED <<bootVars, unhandled, fieldOptions, otherOptionsIn, otherOptions, built, input,
                 processed, clock, uniqueIndex, debugStore, telemetryPending>>

InitQB ==
  InitWith({<<EmailField, TypeField>>, <<TagsField, EmailField>>},
           {[debug |-> FALSE, log |-> <<>>]}, {{}})

NextQB ==
  \/ \E c \in Callers : QueryBuilderCall(c)
  \/ \E c \in Callers : QueryBuilderSettles(c)

SpecQB == InitQB /\ [][NextQB]_vars

-----------------------------------------------------------------------------
(* Properties of the constructor and of the document processor (SpecProc)   *)

DeclaredNames == {fieldOptions[i].name : i \in 1..Len(fieldOptions)}
Descriptors(name) == {i \in 1..Len(fieldOptions) : fieldOptions[i].name = name}
Remove(d, key) == [x \in DOMAIN d \ {key} |-> d[x]]
LifecycleKey(isUpdate) == IF isUpdate THEN "updatedAt" ELSE "createdAt"
FalsyInputs == {Num("0"), Bool(FALSE), Str("")}
HasDefault(field) == TypeOf(field.default) # "undefined"

\* C6: a declared field whose input value is 0, false or "" is processed exactly as
\* if the key were absent; with a defined default the processed value is a coerced
\* default of that field (99 for input 0 against Number/default 99), and a required
\* field without default makes the insert fail.
C6_FalsyInputIsAbsent ==
  input.ran =>
    \A i \in 1..Len(fieldOptions) :
      LET field == fieldOptions[i]
          value == Get(input.document, field.name)
      IN  (field.name \in DOMAIN input.document /\ value \in FalsyInputs) =>
            /\ processed = processDocument(fieldOptions, Remove(input.document, field.name),
                                           input.isUpdate, clock)
            /\ (processed.ok /\ HasDefault(field)) =>
                 /\ field.name \in DOMAIN processed.doc
                 /\ \E j \in Descriptors(field.name) :
                      /\ HasDefault(fieldOptions[j])
                      /\ processed.doc[field.name]
                           = Coerce(fieldOptions[j].type, fieldOptions[j].default)
            /\ (field.type = "number" /\ field.default = Num("99") /\ value = Num("0")
                  /\ Descriptors(field.name) = {i} /\ processed.ok) =>
                 processed.doc[field.name] = Num("99")
            /\ (field.required /\ ~HasDefault(field) /\ ~input.isUpdate) => ~processed.ok

C6_Witness ==
  /\ input.ran /\ ~input.isUpdate /\ processed.ok
  /\ fieldOptions = <<[name |-> "a", type |-> "number", default |-> Num("99"),
                       required |-> FALSE]>>
  /\ Get(input.document, "a") = Num("0")
  /\ processed.doc["a"] = Num("99")

\* C7 (as claimed): a truthy value that is no array, given for an Array field, is
\* processed into the one-element array holding it, and never makes the call fail.
C7_ArrayWrapsAnyValue ==
  input.ran =>
    \A i \in 1..Len(fieldOptions) :
      LET field == fieldOptions[i]
          value == Get(input.document, field.name)
      IN  (field.type = "array" /\ Descriptors(field.name) = {i}
             /\ Truthy(value) /\ ~IsArray(value)) =>
            /\ processed.err # RangeError
            /\ processed.ok => processed.doc[field.name] = Arr(<<value>>)

\* C8: the keys of a processed document are declared field names plus exactly one
\* lifecycle key (createdAt on insert, updatedAt on update) holding the clock's
\* stamp; no undeclared input key reaches the output with the caller's value.
C8_SchemaClosedOutput ==
  (input.ran /\ processed.ok) =>
    LET out == processed.doc
        mine == LifecycleKey(input.isUpdate)
        other == LifecycleKey(~input.isUpdate)
    IN  /\ DOMAIN out \subseteq DeclaredNames \cup {mine}
        /\ mine \in DOMAIN out
        /\ other \notin DOMAIN out
        /\ out[mine] = Stamp(clock)
        /\ \A key \in DOMAIN input.document \ DeclaredNames :
             key \in DOMAIN out => (key = mine /\ out[key] # input.document[key])

C8_Witness ==
  /\ input.ran /\ processed.ok /\ ~input.isUpdate
  /\ {"x", "createdAt", "updatedAt"} \subseteq DOMAIN input.document
  /\ "a" \in DOMAIN processed.doc
  /\ DOMAIN processed.doc = {"a", "createdAt"}

\* C9: a schema with a field named createdAt or updatedAt never yields a Model:
\* the constructor throws, and no operation ever runs on it.
C9_ReservedNameThrows ==
  (DeclaredNames \cap ReservedNames # {}) =>
    /\ built.state \in {"pending", "threw"}
    /\ ~input.ran
    /\ \A c \in DOMAIN call : call[c].pc = "idle"

C9_Witness ==
  /\ built.state = "threw"
  /\ built.err = ReservedNameError
  /\ "updatedAt" \in DeclaredNames

\* C10 (as claimed): the field names of a constructed Model are pairwise distinct.
C10_UniqueFieldNames ==
  built.state = "ok" =>
    \A i, j \in 1..Len(fieldOptions) :
      fieldOptions[i].name = fieldOptions[j].name => i = j

\* the kinds of default the claimed rule of each field type admits
AdmittedDefaults(type) ==
  CASE type = "string" -> {"string", "null"}
    [] type = "number" -> {"number", "null"}
    [] type = "boolean" -> {"boolean"}
    [] type = "date" -> {"date"}
    [] type = "array" -> {"array"}
    [] type = "object" -> {"object", "array", "date", "wrapper", "null"}
    [] type = "objectId" -> {"string", "null"}
    [] OTHER -> {"null", "string", "number", "boolean", "date", "array", "object", "wrapper"}

BreaksDefaultRule(field) ==
  field.default.k # "undefined" /\ field.default.k \notin AdmittedDefaults(field.type)

\* C11: construction throws the default-type error exactly when some field has a
\* defined default that breaks the rule of its type (fields without default and
\* Mixed fields never do), and nothing has reached the driver when it throws.
C11_DefaultTypeChecked ==
  built.state # "pending" =>
    /\ built.err.kind = "DefaultTypeError"
          <=> \E i \in 1..Len(fieldOptions) : BreaksDefaultRule(fieldOptions[i])
    /\ built.err.kind = "DefaultTypeError" =>
          /\ built.state = "threw"
          /\ ~input.ran
          /\ store = <<>> /\ debugStore = <<>> /\ telemetryPending = <<>>
          /\ \A c \in DOMAIN call : call[c].pc = "idle"

C11_Witness ==
  /\ built.state = "threw"
  /\ built.err.kind = "DefaultTypeError"
  /\ \E i \in 1..Len(fieldOptions) :
       fieldOptions[i].type = "boolean" /\ fieldOptions[i].default = Null

-----------------------------------------------------------------------------
(* Properties of the Model operations (Spec)                                *)

\* the required fields without default for which a document holds no truthy value
MissingRequired(document) ==
  {fieldOptions[i].name : i \in {j \in 1..Len(fieldOptions) :
      /\ fieldOptions[j].required
      /\ ~HasDefault(fieldOptions[j])
      /\ ~Truthy(Get(document, fieldOptions[j].name))}}

MatchCount(query) == Cardinality({i \in 1..Len(store) : Matches(store[i], query)})

\* C1 (as claimed): insertOne on a document that lacks a required field without
\* default rejects with the required-field error naming such a field, and no
\* insertOne of that call reaches the driver.
C1_RequiredFieldRejected ==
  \A c \in Callers :
    (call[c].op = "insertOne" /\ MissingRequired(call[c].document) # {}) =>
      /\ call[c].pc = "done"
      /\ call[c].error.kind = "RequiredFieldError"
      /\ call[c].error.field \in MissingRequired(call[c].document)
      /\ call[c].inserts = 0
      /\ call[c].telemetry = 0

\* C2 (as claimed): findOneOrCreate that finds no match inserts one document and
\* resolves to that record: the declared fields of doc plus createdAt.
C2_CreateReturnsRecord ==
  \A c \in Callers :
    (call[c].op = "findOneOrCreate" /\ call[c].pc = "done" /\ ~call[c].matched
       /\ call[c].error = NoError) =>
      /\ call[c].inserts = 1
      /\ call[c].result.kind = "document"
      /\ "createdAt" \in DOMAIN call[c].result.doc
      /\ \A key \in DOMAIN call[c].doc : Get(call[c].result.doc, key) = call[c].doc[key]

\* the step in which findOneOrCreate's read comes back with a match
MatchStep(c) ==
  /\ call[c].op = "findOneOrCreate"
  /\ call[c].pc = "findOne"
  /\ call'[c].pc # "findOne"
  /\ driverFindOne(store, call[c].query).found

\* what that step does to the bound collection and to the caller
MatchStepReturnsStored(c) ==
  /\ call'[c].pc = "done"
  /\ call'[c].error = NoError
  /\ call'[c].result.kind = "document"
  /\ \E i \in 1..Len(store) :
       /\ store[i] = call'[c].result.doc
       /\ Matches(store[i], call[c].query)
  /\ "updatedAt" \notin DOMAIN call'[c].result.doc
  /\ store' = store
  /\ call'[c].inserts = 0
  /\ call'[c].processorRuns = 0

\* C3 (as claimed): on a match findOneOrCreate resolves to the stored document,
\* runs no processor and performs no driver write at all.
C3_MatchWritesNothing ==
  [][\A c \in Callers :
       MatchStep(c) =>
         /\ MatchStepReturnsStored(c)
         /\ telemetryPending' = telemetryPending
         /\ call'[c].telemetry = 0]_vars

\* C3 (amended): on a match findOneOrCreate resolves to the stored document
\* unchanged, never runs the processor and writes nothing to the bound collection;
\* the one driver write it can cause is the dispatch wrapper's TelemetryRecord.
C3_MatchReturnsStored ==
  [][\A c \in Callers :
       MatchStep(c) =>
         /\ MatchStepReturnsStored(c)
         /\ Len(telemetryPending') <= Len(telemetryPending) + 1]_vars

\* a second call with the same filter, after a creating call, has inserted nothing
C3_Witness ==
  \E c1, c2 \in Callers :
    /\ call[c1].op = "findOneOrCreate" /\ call[c1].pc = "done"
    /\ ~call[c1].matched /\ call[c1].inserts = 1 /\ call[c1].error = NoError
    /\ call[c2].op = "findOneOrCreate" /\ call[c2].pc = "done"
    /\ call[c2].query = call[c1].query
    /\ call[c2].matched /\ call[c2].inserts = 0 /\ call[c2].processorRuns = 0
    /\ call[c2].result.kind = "document"
    /\ Len(store) = 1 /\ store[1] = call[c2].result.doc

\* two findOneOrCreate calls with one filter that both read nothing and both inserted
RacedCreates(c1, c2) ==
  /\ c1 # c2
  /\ \A c \in {c1, c2} :
       /\ call[c].op = "findOneOrCreate"
       /\ call[c].pc = "done"
       /\ ~call[c].matched
       /\ call[c].inserts = 1
       /\ Matches(call[c].doc, call[c].query)
  /\ call[c1].query = call[c2].query

\* C4: when two concurrent findOneOrCreate calls with the same filter both read
\* nothing and both inserts succeed, two stored documents match the filter.
C4_RaceLeavesDuplicates ==
  \A c1, c2 \in Callers :
    (RacedCreates(c1, c2) /\ call[c1].error = NoError /\ call[c2].error = NoError) =>
      /\ MatchCount(call[c1].query) >= 2
      /\ DOMAIN call[c1].query \cap uniqueIndex = {}

C4_Witness ==
  \E c1, c2 \in Callers :
    /\ RacedCreates(c1, c2) /\ call[c1].error = NoError /\ call[c2].error = NoError
    /\ uniqueIndex = {}
    /\ MatchCount(call[c1].query) = 2

\* C5: with a unique index on the filtered field at most one stored document ever
\* matches the filter, and of two racing creators at most one succeeds: the other
\* is rejected with the driver's duplicate-key error and no result.
C5_UniqueIndexAtMostOnce ==
  /\ \A f \in uniqueIndex : \A i, j \in 1..Len(store) :
       IndexKey(store[i], f) = IndexKey(store[j], f) => i = j
  /\ \A query \in SysQueries : DOMAIN query \subseteq uniqueIndex => MatchCount(query) <= 1
  /\ \A c1, c2 \in Callers :
       (RacedCreates(c1, c2) /\ DOMAIN call[c1].query \subseteq uniqueIndex) =>
         /\ call[c1].error # NoError \/ call[c2].error # NoError
         /\ \A c \in {c1, c2} :
              call[c].error # NoError =>
                /\ call[c].error = DuplicateKeyError
                /\ call[c].result = NoValue

C5_Witness ==
  \E c1, c2 \in Callers :
    /\ RacedCreates(c1, c2)
    /\ DOMAIN call[c1].query \subseteq uniqueIndex
    /\ call[c1].error = NoError
    /\ call[c2].error = DuplicateKeyError
    /\ MatchCount(call[c1].query) = 1

-----------------------------------------------------------------------------
(* Properties of the dispatch wrapper and of the other operations (SpecOps) *)

\* the step in which a dispatched operation of caller c completes: dispatchAction
\* resumes with fn() resolved
Completes(c) ==
  \/ call[c].pc = "settled" /\ call[c].fn.err = NoError /\ call'[c].pc # "settled"
  \/ call[c].pc = "insertOne" /\ call'[c].pc = "done" /\ call'[c].error = NoError

\* the telemetry inserts a step starts
Started == SubSeq(telemetryPending', Len(telemetryPending) + 1, Len(telemetryPending'))

\* an operation of caller c went through the driver and resolved
WentThrough(c) ==
  /\ call[c].pc = "done"
  /\ call[c].error = NoError
  /\ call[c].fn.settled \/ call[c].inserts = 1

\* C12: a Model constructed with debug = false never writes a TelemetryRecord,
\* whatever the operations took and whatever log value was configured.
C12_DebugOffWritesNothing ==
  ~otherOptionsIn.debug =>
    /\ telemetryPending = <<>>
    /\ debugStore = <<>>
    /\ unhandled = 0
    /\ \A c \in Callers : call[c].telemetry = 0

C12_Witness ==
  /\ ~otherOptionsIn.debug
  /\ otherOptions.log = 50
  /\ call[1].op = "updateOne" /\ WentThrough(1)
  /\ call[2].pc = "idle"
  /\ clock = 100

\* C13: with debug on and a positive threshold T, the step that completes a
\* dispatched operation starts exactly one telemetry insert, whose record names
\* the collection and holds the elapsed time, when elapsed > T, and none when
\* elapsed <= T (T = 50: none after 10 ms, one after 100 ms).
C13_ThresholdTelemetry ==
  [][(otherOptionsIn.debug /\ otherOptionsIn.log # <<>> /\ otherOptionsIn.log[1] > 0) =>
       \A c \in Callers :
         Completes(c) =>
           LET elapsed == clock' - call[c].start
           IN  /\ SubSeq(telemetryPending', 1, Len(telemetryPending)) = telemetryPending
               /\ IF elapsed > otherOptionsIn.log[1]
                  THEN /\ Len(Started) = 1
                       /\ Started[1].model = CollectionName
                       /\ Started[1].time = elapsed
                  ELSE Started = <<>>
               /\ call'[c].telemetry = call[c].telemetry + Len(Started)]_vars

\* a 10 ms operation that wrote nothing, then a 100 ms operation that wrote one record
C13_Witness ==
  /\ otherOptionsIn = [debug |-> TRUE, log |-> <<50>>]
  /\ call[1].op = "findOne" /\ WentThrough(1) /\ call[1].telemetry = 0
  /\ call[2].op = "updateOne" /\ WentThrough(2) /\ call[2].telemetry = 1
  /\ clock = 110
  /\ Len(telemetryPending) = 1
  /\ telemetryPending[1].time = 100

\* C14 (as claimed): a Model constructed with debug = true and log = 0 has the
\* threshold 0: every operation that went through the driver, which takes more
\* than 0 ms, wrote a TelemetryRecord.
C14_ZeroLogIsThreshold ==
  (built.state = "ok" /\ otherOptionsIn = [debug |-> TRUE, log |-> <<0>>]) =>
    /\ otherOptions.log = 0
    /\ \A c \in Callers : WentThrough(c) => call[c].telemetry >= 1

\* C15 (as claimed): a failed telemetry insert is caught: it never surfaces as an
\* unhandled rejection, and it never is the error of an operation.
C15_TelemetryFailureContained ==
  /\ unhandled = 0
  /\ \A c \in Callers :
       (call[c].pc = "done" /\ call[c].fn.settled /\ call[c].fn.err = NoError) =>
         call[c].error = NoError

\* C16: once fn() has resolved, the dispatched operation returns, though no
\* telemetry insert is ever required to complete.
C16_ReturnsWithoutTelemetry ==
  \A c \in Callers :
    (call[c].pc = "settled" /\ call[c].fn.err = NoError)
      ~> (call[c].pc = "done" /\ call[c].error = NoError)

\* the operation has returned while the telemetry insert it started is still pending
C16_Witness ==
  /\ call[1].pc = "done" /\ call[1].fn.settled /\ call[1].error = NoError
  /\ call[1].telemetry = 1
  /\ Len(telemetryPending) = 1
  /\ debugStore = <<>> /\ unhandled = 0

\* C17: whatever the debug setting, a dispatch invokes fn() once and settles as
\* fn() did: it resolves to the very value fn() resolved to, or rejects with the
\* very error fn() rejected with.
C17_DispatchIsTransparent ==
  \A c \in Callers :
    /\ call[c].pc \in {"driver", "settled"} => call[c].fnCalls = 1
    /\ (call[c].pc = "done" /\ call[c].fn.settled) =>
         /\ call[c].fnCalls = 1
         /\ IF call[c].fn.err # NoError
            THEN /\ call[c].error = call[c].fn.err
                 /\ call[c].result = NoValue
                 /\ call[c].dispatched = NoValue
            ELSE /\ call[c].error = NoError
                 /\ call[c].dispatched = call[c].fn.value

\* with debug on: one operation rejected with the driver's error, one resolved to a document
C17_Witness ==
  /\ otherOptions.debug
  /\ call[1].op = "insertMany" /\ call[1].pc = "done" /\ call[1].error = NoError
  /\ call[2].pc = "done"
  /\ \/ /\ call[2].op = "findOne" /\ call[2].error = NoError
        /\ call[2].dispatched.kind = "document"
        /\ call[2].telemetry = 1
     \/ /\ call[2].op = "deleteOne" /\ call[2].error = DriverError

\* C18 (as claimed): updateOne, updateMany, deleteOne, deleteMany and insertMany
\* resolve to true exactly when the driver acknowledged the operation.
C18_BooleanReportsAcknowledgement ==
  \A c \in Callers :
    (call[c].op \in AcknowledgedOps /\ WentThrough(c)) =>
      /\ call[c].result.kind = "boolean"
      /\ call[c].result.bool = call[c].fn.value.bool

\* C19 (as claimed): findOneAndUpdate on a filter that a stored document matches
\* resolves to the modified document, and to null only when nothing matched.
C19_FindOneAndUpdateReturnsDocument ==
  \A c \in Callers :
    (call[c].op = "findOneAndUpdate" /\ WentThrough(c)) =>
      IF call[c].matched
      THEN /\ call[c].result.kind = "document"
           /\ \A key \in DOMAIN call[c].doc :
                Get(call[c].result.doc, key) = call[c].doc[key]
      ELSE call[c].result = NullValue

\* C20 (as claimed): after insertOne(doc) has resolved, the next findOne,
\* filtered on the truthy value doc gave for a declared String field, resolves
\* to a stored document holding that value in the field.
C20_InsertThenFindRoundTrips ==
  \A c \in Callers \ {NumCallers} :
    \A i \in 1..Len(fieldOptions) :
      LET name == fieldOptions[i].name
          value == Get(call[c].document, name)
      IN  (/\ fieldOptions[i].type = "string"
           /\ call[c].op = "insertOne" /\ WentThrough(c)
           /\ Truthy(value)
           /\ call[c + 1].op = "findOne" /\ call[c + 1].pc = "done"
           /\ call[c + 1].error = NoError
           /\ call[c + 1].query = [key \in {name} |-> value]) =>
            /\ call[c + 1].result.kind = "document"
            /\ Get(call[c + 1].result.doc, name) = value
            /\ \E j \in 1..Len(store) : store[j] = call[c + 1].result.doc

\* an element of the batch lacks a required field: no truthy value, no default
Lacking(documents) == \E i \in 1..Len(documents) : MissingRequired(documents[i]) # {}

\* C23: Model.insertMany runs the document processor as an insert on every element
\* independently, and validation is all-or-nothing: when an element lacks a
\* required field the call rejects with the required-field error, the driver's
\* insertMany is never invoked and nothing of the batch is stored.
C23_InsertManyAllOrNothing ==
  [][\A c \in Callers :
       (call'[c] # call[c] /\ call'[c].op = "insertMany") =>
         IF Lacking(call'[c].documents)
         THEN /\ store' = store
              /\ call'[c].driverOp = "none"
              /\ call'[c].inserts = 0
              /\ \E name \in DeclaredNames : call'[c].fn.err = RequiredFieldError(name)
              /\ call'[c].pc = "done" => call'[c].error = call'[c].fn.err
         ELSE call[c].pc = "idle" =>
                /\ call'[c].driverOp = "insertMany"
                /\ call'[c].docs =
                     [i \in 1..Len(call'[c].documents) |->
                        processDocument(fieldOptions, call'[c].documents[i], FALSE, clock).doc]
    ]_vars

\* an insertMany whose first element is valid and whose second lacks the required
\* field was rejected, and nothing is stored
C23_Witness ==
  \E c \in Callers :
    /\ call[c].op = "insertMany"
    /\ call[c].pc = "done"
    /\ call[c].error \in {RequiredFieldError(name) : name \in DeclaredNames}
    /\ Len(call[c].documents) = 2
    /\ MissingRequired(call[c].documents[1]) = {}
    /\ store = <<>>

\* C24: on the update family (updateOne, updateMany, findOneAndUpdate) the document
\* processor never raises a required-field error: a declared field with no truthy
\* input value and no default is left out of the update document, whatever its
\* required flag.
C24_UpdateNeverRequires ==
  \A c \in Callers :
    call[c].op \in UpdateOps =>
      /\ \A name \in DeclaredNames :
           /\ call[c].fn.err # RequiredFieldError(name)
           /\ call[c].error # RequiredFieldError(name)
      /\ call[c].fnCalls > 0 /\ call[c].fn.err # RangeError =>
           \A i \in 1..Len(fieldOptions) :
             (/\ \A j \in Descriptors(fieldOptions[i].name) : ~HasDefault(fieldOptions[j])
              /\ ~Truthy(Get(call[c].document, fieldOptions[i].name)))
             => fieldOptions[i].name \notin DOMAIN call[c].doc

\* an update that does not mention the required field email went to the driver
\* without it
C24_Witness ==
  \E c \in Callers :
    /\ call[c].op \in UpdateOps
    /\ call[c].pc = "done"
    /\ call[c].error = NoError
    /\ MissingRequired(call[c].document) # {}
    /\ "email" \notin DOMAIN call[c].doc
    /\ "updatedAt" \in DOMAIN call[c].doc

-----------------------------------------------------------------------------
(* Properties of the QueryBuilder called directly (SpecQB)                  *)

\* C21: every QueryBuilder write hands the caller's document to the driver with
\* its fields unmodified: nothing is added, dropped, coerced or stamped, and no
\* required-field error is raised.
C21_QueryBuilderHandsUnmodified ==
  \A c \in Callers :
    call[c].op \in QbWrites =>
      /\ \A name \in DeclaredNames : call[c].error # RequiredFieldError(name)
      /\ call[c].driverOp = "insertMany" => call[c].docs = call[c].documents
      /\ call[c].driverOp \in QbWrites \ {"insertMany"} => call[c].doc = call[c].document
      /\ (call[c].op = "insertOne" /\ call[c].pc = "done" /\ call[c].error = NoError) =>
           call[c].result.doc = Put(call[c].document, "_id", call[c].result.doc["_id"])

\* an insertOne of an empty document, which an insert through a Model with a
\* required field refuses, was stored as it was handed over
C21_Witness ==
  \E c \in Callers :
    /\ call[c].op = "insertOne"
    /\ call[c].pc = "done"
    /\ call[c].error = NoError
    /\ call[c].document = EmptyDoc
    /\ \E i \in 1..Len(store) : DOMAIN store[i] = {"_id"}
    /\ \E i \in 1..Len(fieldOptions) : fieldOptions[i].required

-----------------------------------------------------------------------------
(* Properties of Connection.create and Model.generateIndexes (SpecBoot)     *)

\* C22: whenever the promise of MongoODM.connect (Connection.create) has resolved,
\* Connection.$mongoConnection is initialized, also when the driver's connect
\* attempt failed, so that no Model operation started after awaiting it runs
\* against an unset handle.
C22_ResolvedConnectIsInitialized ==
  /\ connect = "resolved" => mongoConnection # "unset"
  /\ \A c \in Callers : call[c].error # HandleUnsetError

\* C25: the promise of Model.generateIndexes resolves only after every createIndex
\* call issued for the bound index descriptors has completed, and a createIndex
\* failure is reported through that promise.
C25_GenerateIndexesAwaitsAll ==
  /\ indexing.promise = "resolved" => indexing.inFlight = {} /\ indexing.failed = {}
  /\ indexing.failed # {} => indexing.promise = "rejected"

-----------------------------------------------------------------------------
(* Properties of the write operations with upsert and useModifier (SpecWrites) *)

\* the stored documents without a createdAt field
Unstamped == {i \in 1..Len(store) : "createdAt" \notin DOMAIN store[i]}

\* the calls whose upsert matched nothing and was carried out by the driver
Upserts ==
  {c \in Callers :
     /\ call[c].op \in {"updateOne", "findOneAndUpdate"}
     /\ call[c].upsert
     /\ call[c].fn.settled
     /\ call[c].fn.err = NoError
     /\ ~call[c].matched}

\* C27 (as claimed): after any sequence of Model write operations on an initially
\* empty collection, every stored document has a createdAt field.
C27_EveryDocumentHasCreatedAt == Unstamped = {}

\* C27 (amended): the stored documents without createdAt are exactly the documents
\* that updateOne and findOneAndUpdate created by upsert, one for each such call
\* that matched nothing.
C27_OnlyUpsertsLackCreatedAt == Cardinality(Unstamped) = Cardinality(Upserts)

\* an insertOne stored a stamped document and an upsert that matched nothing stored
\* one without createdAt
C27_Witness ==
  /\ Unstamped # {}
  /\ Unstamped # 1..Len(store)
  /\ Upserts # {}

\* the step is an update with the $set modifier that the driver carries out for c
SetStep(c) ==
  /\ call[c].pc = "driver"
  /\ call[c].op \in UpdateOps
  /\ call[c].modifier = "$set"
  /\ call'[c].pc = "settled"
  /\ call'[c].fn.err = NoError

\* the keys under which a stored document differs before and after the step
Changed(i) ==
  {key \in DOMAIN store[i] \cup DOMAIN store'[i] : Get(store[i], key) # Get(store'[i], key)}

\* C28: updateOne, updateMany and findOneAndUpdate with the default $set modifier
\* change, in a matched stored document, only the declared fields that carry a
\* truthy value in the update input, plus updatedAt; every other stored field,
\* a declared field with a schema default that the update does not mention
\* included, keeps its stored value.
C28_UpdateChangesOnlyGivenFields ==
  [][\A c \in Callers :
       SetStep(c) =>
         \A i \in 1..Len(store) :
           Changed(i) \subseteq
             {"updatedAt"} \cup
             {name \in DeclaredNames : Truthy(Get(call[c].document, name))}
    ]_vars

-----------------------------------------------------------------------------
(* Properties of Connection.sanitize (SpecSanitize)                         *)

RECURSIVE HasDollarKey(_)
\* a property whose key starts with $ at some depth of x
HasDollarKey(x) ==
  HasProperties(x) /\
    \E key \in DOMAIN x.v : key \in DollarKeys \/ HasDollarKey(x.v[key])

RECURSIVE Preserved(_, _)
\* every property of x outside a removed one is in y, a non-object with its value
Preserved(x, y) ==
  IF ~HasProperties(x) THEN y = x
  ELSE /\ HasProperties(y)
       /\ \A key \in DOMAIN x.v \ DollarKeys :
            key \in DOMAIN y.v /\ Preserved(x.v[key], y.v[key])

\* C26: after Connection.sanitize(v) returns, no property whose key starts with $
\* is left at any depth of v, and every property whose key does not start with $
\* and that is not nested under a removed property is still there with the same
\* non-object value.
C26_SanitizeRemovesDollarKeys ==
  sanitized.ran => ~HasDollarKey(sanitized.out) /\ Preserved(sanitized.v, sanitized.out)

-----------------------------------------------------------------------------
(* Properties of the create path of findOneOrCreate (SpecCreate)            *)

\* C29: the document Model.findOneOrCreate inserts on its create path equals, field
\* for field, the document Model.insertOne would insert for the same input and
\* clock reading, and findOneOrCreate raises no required-field error on an input
\* that insertOne accepts.
C29_CreateInsertsWhatInsertOneInserts ==
  \A c \in Callers :
    call[c].op = "findOneOrCreate" =>
      LET alone == insertOneStart(Idle, call[c].document, clock)
      IN  alone.error = NoError =>
            /\ call[c].error = NoError
            /\ call[c].doc = alone.doc

====
